---- MODULE Spec2Model ----
(***************************************************************************)
(* Model of the bookkeeping CLI of src/code.py: the CSV store               *)
(* (ensure_csv_file, load_transactions, save_transactions), the in-memory   *)
(* list of transactions with its mutating operations, the derived views,    *)
(* and the menu loop of main().                                             *)
(*                                                                          *)
(* Text is modelled as TLA+ strings handled character by character.  The    *)
(* backing file is the sequence of its lines.  Cell texts never contain a   *)
(* comma, a quote or a line break, the only characters for which the csv    *)
(* module's quoting does anything.  Amounts are whole-valued floats, held   *)
(* as integers; float() and str() are computed on the decimal text.         *)
(*                                                                          *)
(* Spec is a whole session of main().  SpecEdit keeps the operations that   *)
(* change the list, SpecViews those that only read it, SpecStore the load   *)
(* alone on every kind of file.                                             *)
(***************************************************************************)
EXTENDS Integers, Sequences, FiniteSets, TLC

VARIABLES
  exists,        \* whether FILE_PATH exists
  file,          \* the lines of FILE_PATH
  initial,       \* the file the process was started on
  transactions,  \* the list main() holds
  pc,            \* "start", "menu", "exited", or "crashed" (uncaught exception)
  choice,        \* the last menu choice typed
  inp,           \* the answers the last action read with input()
  out            \* what the last action printed

vars == <<exists, file, initial, transactions, pc, choice, inp, out>>

(***************************************************************************)
(* Bounds                                                                   *)
(***************************************************************************)
MaxLen == 2
MaxRows == 2
MaxViewRows == 3

(***************************************************************************)
(* Python text primitives                                                   *)
(***************************************************************************)
Char(s, i) == SubSeq(s, i, i)

Min(a, b) == IF a < b THEN a ELSE b

IsSpace(c) == c = " "

RECURSIVE lstrip(_)
lstrip(s) ==
  IF s # "" /\ IsSpace(Char(s, 1)) THEN lstrip(Tail(s)) ELSE s

RECURSIVE rstrip(_)
rstrip(s) ==
  IF s # "" /\ IsSpace(Char(s, Len(s)))
  THEN rstrip(SubSeq(s, 1, Len(s) - 1))
  ELSE s

strip(s) == rstrip(lstrip(s))

UpperChars == "ABCDEFGHIJKLMNOPQRSTUVWXYZ"
LowerChars == "abcdefghijklmnopqrstuvwxyz"

LowerOf ==
  [c \in {Char(UpperChars, i) : i \in 1..26} |->
     Char(LowerChars, CHOOSE i \in 1..26 : Char(UpperChars, i) = c)]

LowerChar(c) == IF c \in DOMAIN LowerOf THEN LowerOf[c] ELSE c

RECURSIVE lower(_)
lower(s) ==
  IF s = "" THEN "" ELSE LowerChar(Char(s, 1)) \o lower(Tail(s))

DigitChars == "0123456789"

DigitOf ==
  [c \in {Char(DigitChars, i) : i \in 1..10} |->
     (CHOOSE i \in 1..10 : Char(DigitChars, i) = c) - 1]

IsDigit(c) == c \in DOMAIN DigitOf

DigitVal(c) == DigitOf[c]

RECURSIVE AllDigits(_)
AllDigits(s) ==
  s = "" \/ (IsDigit(Char(s, 1)) /\ AllDigits(Tail(s)))

RECURSIVE AllZeros(_)
AllZeros(s) ==
  s = "" \/ (Char(s, 1) = "0" /\ AllZeros(Tail(s)))

RECURSIVE DigitsVal(_, _)
DigitsVal(s, acc) ==
  IF s = "" THEN acc ELSE DigitsVal(Tail(s), 10 * acc + DigitVal(Char(s, 1)))

RECURSIVE DecStr(_)
DecStr(n) ==
  IF n < 10 THEN Char(DigitChars, n + 1)
  ELSE DecStr(n \div 10) \o Char(DigitChars, (n % 10) + 1)

HasSign(s) == s # "" /\ Char(s, 1) \in {"+", "-"}

Unsigned(s) == IF HasSign(s) THEN Tail(s) ELSE s

Signed(s, n) == IF s # "" /\ Char(s, 1) = "-" THEN 0 - n ELSE n

RECURSIVE DotAt(_, _)
DotAt(s, i) ==
  IF i > Len(s) THEN 0
  ELSE IF Char(s, i) = "." THEN i
  ELSE DotAt(s, i + 1)

\* int(text): surrounding blanks, an optional sign, decimal digits.
IsInt(s) ==
  LET u == Unsigned(strip(s)) IN u # "" /\ AllDigits(u)

IntVal(s) == Signed(strip(s), DigitsVal(Unsigned(strip(s)), 0))

\* float(text) on whole-valued decimal text: digits, optionally followed by
\* a point and zeros.
IntPart(u) == IF DotAt(u, 1) = 0 THEN u ELSE SubSeq(u, 1, DotAt(u, 1) - 1)

FracPart(u) ==
  IF DotAt(u, 1) = 0 THEN "" ELSE SubSeq(u, DotAt(u, 1) + 1, Len(u))

IsFloat(s) ==
  LET u == Unsigned(strip(s)) IN
    /\ IntPart(u) # ""
    /\ AllDigits(IntPart(u))
    /\ AllZeros(FracPart(u))

FloatVal(s) == Signed(strip(s), DigitsVal(IntPart(Unsigned(strip(s))), 0))

\* str(x) of a whole-valued float x.
FloatStr(x) ==
  IF x < 0 THEN "-" \o DecStr(0 - x) \o ".0" ELSE DecStr(x) \o ".0"

(***************************************************************************)
(* csv module: reader, DictReader, DictWriter                               *)
(***************************************************************************)
FIELDNAMES == <<"Date", "Description", "Type", "Category", "Amount">>

FieldSet == {FIELDNAMES[i] : i \in 1..Len(FIELDNAMES)}

\* Python's None, as the restkey of DictReader and as its restval.
None == "<None>"

RECURSIVE JoinFrom(_, _)
JoinFrom(cells, i) ==
  IF i > Len(cells) THEN ""
  ELSE IF i = Len(cells) THEN cells[i]
  ELSE cells[i] \o "," \o JoinFrom(cells, i + 1)

Join(cells) == JoinFrom(cells, 1)

HeaderLine == Join(FIELDNAMES)

RECURSIVE SplitAcc(_, _, _)
SplitAcc(s, cur, acc) ==
  IF s = "" THEN Append(acc, cur)
  ELSE IF Char(s, 1) = "," THEN SplitAcc(Tail(s), "", Append(acc, cur))
  ELSE SplitAcc(Tail(s), cur \o Char(s, 1), acc)

\* csv.reader on one line: an empty line is the empty row.
ReaderRow(line) == IF line = "" THEN <<>> ELSE SplitAcc(line, "", <<>>)

LastIndex(fn, k) ==
  CHOOSE i \in 1..Len(fn) :
    fn[i] = k /\ \A j \in (i + 1)..Len(fn) : fn[j] # k

\* One row of DictReader: dict(zip(fieldnames, row)), the surplus cells under
\* restkey, the missing fields set to restval.
DictRow(fn, row) ==
  LET named == {fn[i] : i \in 1..Len(fn)}
      keys  == IF Len(fn) < Len(row) THEN named \cup {None} ELSE named
  IN  [k \in keys |->
         IF k \notin named THEN SubSeq(row, Len(fn) + 1, Len(row))
         ELSE IF LastIndex(fn, k) <= Len(row) THEN row[LastIndex(fn, k)]
         ELSE None]

RECURSIVE DictRowsFrom(_, _, _)
DictRowsFrom(fn, lines, i) ==
  IF i > Len(lines) THEN <<>>
  ELSE IF ReaderRow(lines[i]) = <<>> THEN DictRowsFrom(fn, lines, i + 1)
  ELSE <<DictRow(fn, ReaderRow(lines[i]))>> \o DictRowsFrom(fn, lines, i + 1)

\* csv.DictReader over the whole file: the first line gives the fieldnames,
\* empty rows are skipped.
DictReader(lines) ==
  IF lines = <<>> THEN <<>>
  ELSE DictRowsFrom(ReaderRow(lines[1]), lines, 2)

\* DictWriter._dict_to_list raises ValueError on a key outside fieldnames.
WriterRaises(d) == ~(DOMAIN d \subseteq FieldSet)

\* The text the writer puts in a cell: None is empty, a float is its str().
\* amountIsFloat tells the rows of the session (Amount already converted by
\* load or by an add) from the raw rows of a DictReader (every value text).
CellText(d, k, amountIsFloat) ==
  IF k \notin DOMAIN d THEN ""
  ELSE IF k = "Amount" /\ amountIsFloat THEN FloatStr(d[k])
  ELSE IF d[k] = None THEN ""
  ELSE d[k]

WriteRow(d, amountIsFloat) ==
  Join([i \in 1..Len(FIELDNAMES) |-> CellText(d, FIELDNAMES[i], amountIsFloat)])

RECURSIVE WriteRowsFrom(_, _, _)
WriteRowsFrom(rows, i, amountIsFloat) ==
  IF i > Len(rows) \/ WriterRaises(rows[i]) THEN <<>>
  ELSE <<WriteRow(rows[i], amountIsFloat)>>
         \o WriteRowsFrom(rows, i + 1, amountIsFloat)

\* open(FILE_PATH, 'w'); writeheader(); writerows(rows): the lines that reach
\* the file, and whether writerows raised part-way.
WriteFile(rows, amountIsFloat) ==
  [lines  |-> <<HeaderLine>> \o WriteRowsFrom(rows, 1, amountIsFloat),
   raised |-> \E i \in 1..Len(rows) : WriterRaises(rows[i])]

(***************************************************************************)
(* CSV file handling                                                        *)
(***************************************************************************)
\* ensure_csv_file(): the file afterwards and whether the call raised.
ensure_csv_file(ex, lines) ==
  IF ~ex THEN [lines |-> <<HeaderLine>>, raised |-> FALSE]
  ELSE LET first_line == IF lines = <<>> THEN "" ELSE strip(lines[1]) IN
       IF first_line # HeaderLine
       THEN WriteFile(DictReader(lines), FALSE)
       ELSE [lines |-> lines, raised |-> FALSE]

\* The body of the loop of load_transactions on one DictReader row.
\* row.get('Amount', 0): float(0) is what float("0") is.
AmountArg(row) == IF "Amount" \in DOMAIN row THEN row["Amount"] ELSE "0"

RowTypeError(row) == AmountArg(row) = None

RowValueError(row) == ~RowTypeError(row) /\ ~IsFloat(AmountArg(row))

LoadedRow(row) ==
  [k \in DOMAIN row \cup FieldSet |->
     IF k = "Amount" THEN FloatVal(AmountArg(row))
     ELSE IF k \in DOMAIN row THEN row[k]
     ELSE "N/A"]

RECURSIVE LoadRowsFrom(_, _)
LoadRowsFrom(rows, i) ==
  IF i > Len(rows) THEN <<>>
  ELSE IF RowTypeError(rows[i]) THEN <<>>
  ELSE IF RowValueError(rows[i]) THEN LoadRowsFrom(rows, i + 1)
  ELSE <<LoadedRow(rows[i])>> \o LoadRowsFrom(rows, i + 1)

\* load_transactions(): the file as ensure_csv_file leaves it, the list
\* returned, and whether ensure_csv_file raised (it is called outside the try).
load_transactions(ex, lines) ==
  LET e == ensure_csv_file(ex, lines) IN
    [lines  |-> e.lines,
     raised |-> e.raised,
     list   |-> IF e.raised THEN <<>> ELSE LoadRowsFrom(DictReader(e.lines), 1)]

\* save_transactions(list): the file afterwards and whether the call raised.
save_transactions(ex, lines, list) ==
  LET e == ensure_csv_file(ex, lines) IN
    IF e.raised THEN e ELSE WriteFile(list, TRUE)

(***************************************************************************)
(* Derived views                                                            *)
(***************************************************************************)
DisplayKeys == {"Date", "Description", "Type", "Category", "Amount"}

RECURSIVE FilterFrom(_, _, _)
FilterFrom(list, i, filter_type) ==
  IF i > Len(list) THEN <<>>
  ELSE IF lower(list[i]["Type"]) = lower(filter_type)
       THEN <<list[i]>> \o FilterFrom(list, i + 1, filter_type)
       ELSE FilterFrom(list, i + 1, filter_type)

\* show_transactions(list, filter_type): the rows printed, a message when
\* there is nothing to print, and whether a row lacks a key the format reads
\* (KeyError).  filter_type "" stands for filter_type=None.
show_transactions(list, filter_type) ==
  LET shown == IF filter_type = "" THEN list
               ELSE FilterFrom(list, 1, filter_type)
  IN  IF list = <<>>
      THEN [raised |-> FALSE, msg |-> "No transactions found.", rows |-> <<>>]
      ELSE IF shown = <<>>
      THEN [raised |-> FALSE,
            msg |-> "No " \o lower(filter_type) \o " records found.",
            rows |-> <<>>]
      ELSE [raised |-> \E i \in 1..Len(shown) :
                         ~(DisplayKeys \subseteq DOMAIN shown[i]),
            msg |-> "", rows |-> shown]

\* A plausible slip: only the types the program itself writes are recognised.
TermExactCase(t) ==
  IF t["Type"] = "Income" THEN t["Amount"] ELSE 0 - t["Amount"]

\* One term of the sum of calculate_balance.
Term(t) ==
  IF lower(t["Type"]) = "income" THEN t["Amount"] ELSE 0 - t["Amount"]

RECURSIVE BalanceFrom(_, _, _)
BalanceFrom(list, i, acc) ==
  IF i > Len(list) THEN acc
  ELSE BalanceFrom(list, i + 1, acc + Term(list[i]))

\* calculate_balance(list): the balance printed.
calculate_balance(list) == BalanceFrom(list, 1, 0)

\* A plausible slip: the day is left in the key.
MonthlyKeyWholeDate(t) == t["Date"] \o " - " \o t["Category"]

MonthlyKey(t) ==
  SubSeq(t["Date"], 1, Min(7, Len(t["Date"]))) \o " - " \o t["Category"]

\* monthly[key] = monthly.get(key, 0) + amount on an insertion-ordered dict,
\* held as the sequence of its (key, total) pairs.
DictAdd(monthly, key, amount) ==
  IF \E j \in 1..Len(monthly) : monthly[j][1] = key
  THEN [j \in 1..Len(monthly) |->
          IF monthly[j][1] = key
          THEN <<key, monthly[j][2] + amount>>
          ELSE monthly[j]]
  ELSE Append(monthly, <<key, amount>>)

RECURSIVE MonthlyFrom(_, _, _)
MonthlyFrom(list, i, monthly) ==
  IF i > Len(list) THEN monthly
  ELSE IF lower(list[i]["Type"]) = "expense"
       THEN MonthlyFrom(list, i + 1,
              DictAdd(monthly, MonthlyKey(list[i]), list[i]["Amount"]))
       ELSE MonthlyFrom(list, i + 1, monthly)

MonthlyRaises(list) ==
  \E i \in 1..Len(list) :
    /\ lower(list[i]["Type"]) = "expense"
    /\ ~({"Category", "Date"} \subseteq DOMAIN list[i])

\* calculate_monthly_expenses(list): the (key, total) lines printed, in order.
calculate_monthly_expenses(list) ==
  IF MonthlyRaises(list) THEN <<>> ELSE MonthlyFrom(list, 1, <<>>)

(***************************************************************************)
(* What the user can type                                                   *)
(***************************************************************************)
\* datetime.today().strftime('%Y-%m-%d')
Today == "2024-02-03"

IncomeDateInputs == {""}
IncomeAmountInputs == {"abc", "100"}
ExpenseDateInputs == {"2024-01-20"}
ExpenseCategoryInputs == {""}
ExpenseAmountInputs == {"", "30"}
SalaryInputs == {"x", " 30.0"}
IndexInputs == {"x", "0", "-1"} \cup {DecStr(i) : i \in 1..(MaxLen + 1)}
\* The replacements typed for Description, Type, Category and Amount.
UpdateInputs ==
  { <<"", "", "", "">>,
    <<"Fix", "Transfer", "Food", "10">>,
    <<"", "income", "", "abc">> }
InvalidChoices == {"12", " 1"}
SaveNowInputs == {"Y", "n"}

NoOutput == [kind |-> "none", val |-> <<>>]

(***************************************************************************)
(* Adding and updating transactions                                         *)
(***************************************************************************)
\* add_income(list) on the three answers typed.
add_income(list, date, description, amount) ==
  IF ~IsFloat(amount) THEN list
  ELSE Append(list,
         [k \in {"Date", "Description", "Type", "Amount"} |->
            CASE k = "Date" -> IF date # "" THEN date ELSE Today
              [] k = "Description" -> description
              [] k = "Type" -> "Income"
              [] k = "Amount" -> FloatVal(amount)])

\* add_expense(list) on the four answers typed.
add_expense(list, date, description, category, amount) ==
  IF ~IsFloat(amount) THEN list
  ELSE Append(list,
         [k \in {"Date", "Description", "Type", "Category", "Amount"} |->
            CASE k = "Date" -> IF date # "" THEN date ELSE Today
              [] k = "Description" -> description
              [] k = "Type" -> "Expense"
              [] k = "Category" -> IF category # "" THEN category ELSE "Expense"
              [] k = "Amount" -> FloatVal(amount)])

\* add_payroll(list) on the two answers typed.
add_payroll(list, employee, salary) ==
  IF ~IsFloat(salary) THEN list
  ELSE Append(list,
         [k \in {"Date", "Description", "Type", "Category", "Amount"} |->
            CASE k = "Date" -> Today
              [] k = "Description" -> "Payroll - " \o employee
              [] k = "Type" -> "Expense"
              [] k = "Category" -> "Payroll"
              [] k = "Amount" -> FloatVal(salary)])

\* A plausible slip: a replacement that is not a number resets the amount.
UpdatedRecordResetting(t, description, type, category, new_amount) ==
  LET t1 == [t  EXCEPT !["Description"] =
                         IF description # "" THEN description ELSE @]
      t2 == [t1 EXCEPT !["Type"] = IF type # "" THEN type ELSE @]
      t3 == [t2 EXCEPT !["Category"] = IF category # "" THEN category ELSE @]
  IN  IF new_amount = "" THEN t3
      ELSE [t3 EXCEPT !["Amount"] =
              IF IsFloat(new_amount) THEN FloatVal(new_amount) ELSE 0]

\* The four assignments of update_transaction on the record t.
UpdatedRecord(t, description, type, category, new_amount) ==
  LET t1 == [t  EXCEPT !["Description"] =
                         IF description # "" THEN description ELSE @]
      t2 == [t1 EXCEPT !["Type"] = IF type # "" THEN type ELSE @]
      t3 == [t2 EXCEPT !["Category"] = IF category # "" THEN category ELSE @]
  IN  IF new_amount # "" /\ IsFloat(new_amount)
      THEN [t3 EXCEPT !["Amount"] = FloatVal(new_amount)]
      ELSE t3

\* A plausible slip: the lower bound of the range test is missing, and a
\* negative index counts from the end of the list.
update_transaction_no_lower_bound(list, number, description, type, category, new_amount) ==
  IF list = <<>> THEN [raised |-> FALSE, list |-> list]
  ELSE IF show_transactions(list, "").raised
  THEN [raised |-> TRUE, list |-> list]
  ELSE IF ~IsInt(number) THEN [raised |-> FALSE, list |-> list]
  ELSE LET index == IntVal(number) - 1
           at == IF index < 0 THEN Len(list) + index + 1 ELSE index + 1
       IN  IF index < Len(list) /\ at \in 1..Len(list)
           THEN [raised |-> FALSE,
                 list |-> [list EXCEPT ![at] =
                             UpdatedRecord(@, description, type, category,
                                           new_amount)]]
           ELSE [raised |-> FALSE, list |-> list]

\* update_transaction(list) on the number typed and the four replacements:
\* the list afterwards and whether show_transactions raised.
update_transaction(list, number, description, type, category, new_amount) ==
  IF list = <<>> THEN [raised |-> FALSE, list |-> list]
  ELSE IF show_transactions(list, "").raised
  THEN [raised |-> TRUE, list |-> list]
  ELSE IF ~IsInt(number) THEN [raised |-> FALSE, list |-> list]
  ELSE LET index == IntVal(number) - 1 IN
       IF 0 <= index /\ index < Len(list)
       THEN [raised |-> FALSE,
             list |-> [list EXCEPT ![index + 1] =
                         UpdatedRecord(@, description, type, category,
                                       new_amount)]]
       ELSE [raised |-> FALSE, list |-> list]

(***************************************************************************)
(* What the file can hold when the process starts                           *)
(***************************************************************************)
GoodLine == "2024-01-05,Rent,Expense,Rent,500"
BadAmountLine == "2024-01-20,Food,Expense,Food,abc"
NoAmountLine == "2024-01-20,Gift,Income,Gifts,"
ShortLine == "2024-02-03,Pay,Expense"
LongLine == "2024-01-05,Sale,Income,Sales,100,extra"
BlankLine == ""

WrongNamesHeader == "date,desc,type,cat,amt"
PermutedHeader == "Amount,Date,Description,Type,Category"
ExtraColumnHeader == "Date,Description,Type,Category,Amount,Note"
PaddedHeader == " Date,Description,Type,Category,Amount"

Absent == [exists |-> FALSE, lines |-> <<>>]

OnDisk(lines) == [exists |-> TRUE, lines |-> lines]

SeqsUpTo(S, n) == UNION {[1..m -> S] : m \in 0..n}

\* The files a session is started on.
SessionFiles ==
  { Absent,
    OnDisk(<<HeaderLine, GoodLine>>),
    OnDisk(<<HeaderLine, LongLine>>),
    OnDisk(<<PaddedHeader, GoodLine>>),
    OnDisk(<<WrongNamesHeader, GoodLine>>) }

\* The files the store is opened on: absent, or up to MaxRows + 1 lines, the
\* first of them a header of some kind or already a data line.
StoreLines ==
  {GoodLine, BadAmountLine, NoAmountLine, ShortLine, LongLine, BlankLine}

StoreHeaders ==
  {HeaderLine, WrongNamesHeader, PermutedHeader, ExtraColumnHeader,
   PaddedHeader}

StoreFiles ==
  {Absent}
    \cup {OnDisk(rows) : rows \in SeqsUpTo(StoreLines, MaxRows)}
    \cup {OnDisk(<<h>> \o rows) :
            h \in StoreHeaders, rows \in SeqsUpTo(StoreLines, MaxRows)}

\* The files the views are computed on: a valid header and up to MaxViewRows
\* rows that all load.
ViewLines ==
  {"2024-01-05,Sale,Income,Sales,100",
   "2024-01-05,Rent,Expense,Rent,500",
   "2024-01-20,Rent,Expense,Rent,200",
   "2024-01-20,Food,EXPENSE,Food,30",
   "2024-02-03,Move,Transfer,Bank,10",
   "2024-01-06,Tip,income,Sales,10",
   "2024,Tax,expense,Rent,30"}

ViewFiles ==
  {OnDisk(<<HeaderLine>> \o rows) : rows \in SeqsUpTo(ViewLines, MaxViewRows)}

(***************************************************************************)
(* main(): the load, then one action per menu choice                        *)
(***************************************************************************)
StartOn(files) ==
  /\ \E f \in files :
       /\ exists = f.exists
       /\ file = f.lines
       /\ initial = f
  /\ transactions = <<>>
  /\ pc = "start"
  /\ choice = ""
  /\ inp = <<>>
  /\ out = NoOutput

Init == StartOn(SessionFiles)

InitStore == StartOn(StoreFiles)

InitViews == StartOn(ViewFiles)

\* transactions = load_transactions(); an exception of ensure_csv_file is not
\* caught and ends the process.
MainLoad ==
  /\ pc = "start"
  /\ LET r == load_transactions(exists, file) IN
       /\ exists' = TRUE
       /\ file' = r.lines
       /\ transactions' = r.list
       /\ pc' = IF r.raised THEN "crashed" ELSE "menu"
  /\ UNCHANGED <<initial, choice, inp, out>>

ChooseAddIncome ==
  /\ pc = "menu"
  /\ \E date \in IncomeDateInputs, amount \in IncomeAmountInputs :
       /\ IsFloat(amount) => Len(transactions) < MaxLen
       /\ transactions' = add_income(transactions, date, "Sale", amount)
       /\ inp' = <<date, "Sale", amount>>
  /\ choice' = "1"
  /\ out' = NoOutput
  /\ UNCHANGED <<exists, file, initial, pc>>

ChooseAddExpense ==
  /\ pc = "menu"
  /\ \E date \in ExpenseDateInputs, category \in ExpenseCategoryInputs,
        amount \in ExpenseAmountInputs :
       /\ IsFloat(amount) => Len(transactions) < MaxLen
       /\ transactions' =
            add_expense(transactions, date, "Bill", category, amount)
       /\ inp' = <<date, "Bill", category, amount>>
  /\ choice' = "2"
  /\ out' = NoOutput
  /\ UNCHANGED <<exists, file, initial, pc>>

\* Choices 3, 4 and 5: show_transactions with no filter, 'Income', 'Expense'.
\* A KeyError of show_transactions is not caught and ends the process.
ChooseViewAll ==
  /\ pc = "menu"
  /\ LET r == show_transactions(transactions, "") IN
       /\ pc' = IF r.raised THEN "crashed" ELSE "menu"
       /\ out' = IF r.raised THEN NoOutput
                 ELSE [kind |-> "shown", val |-> r.rows]
  /\ choice' = "3"
  /\ inp' = <<>>
  /\ UNCHANGED <<exists, file, initial, transactions>>

ChooseViewIncome ==
  /\ pc = "menu"
  /\ LET r == show_transactions(transactions, "Income") IN
       /\ pc' = IF r.raised THEN "crashed" ELSE "menu"
       /\ out' = IF r.raised THEN NoOutput
                 ELSE [kind |-> "shown", val |-> r.rows]
  /\ choice' = "4"
  /\ inp' = <<>>
  /\ UNCHANGED <<exists, file, initial, transactions>>

ChooseViewExpense ==
  /\ pc = "menu"
  /\ LET r == show_transactions(transactions, "Expense") IN
       /\ pc' = IF r.raised THEN "crashed" ELSE "menu"
       /\ out' = IF r.raised THEN NoOutput
                 ELSE [kind |-> "shown", val |-> r.rows]
  /\ choice' = "5"
  /\ inp' = <<>>
  /\ UNCHANGED <<exists, file, initial, transactions>>

ChooseUpdate ==
  /\ pc = "menu"
  /\ \E number \in IndexInputs, new \in UpdateInputs :
       LET description == new[1]
           type == new[2]
           category == new[3]
           new_amount == new[4]
           r == update_transaction(transactions, number, description, type,
                                   category, new_amount)
           asked == transactions # <<>> /\ ~r.raised
           inRange == /\ asked
                      /\ IsInt(number)
                      /\ IntVal(number) - 1 \in 0..(Len(transactions) - 1)
       IN  /\ transactions' = r.list
           /\ pc' = IF r.raised THEN "crashed" ELSE "menu"
           /\ inp' = IF inRange
                     THEN <<number, description, type, category, new_amount>>
                     ELSE IF asked THEN <<number>>
                     ELSE <<>>
  /\ choice' = "6"
  /\ out' = NoOutput
  /\ UNCHANGED <<exists, file, initial>>

ChooseBalance ==
  /\ pc = "menu"
  /\ out' = [kind |-> "balance", val |-> calculate_balance(transactions)]
  /\ choice' = "7"
  /\ inp' = <<>>
  /\ UNCHANGED <<exists, file, initial, transactions, pc>>

ChooseMonthly ==
  /\ pc = "menu"
  /\ pc' = IF MonthlyRaises(transactions) THEN "crashed" ELSE "menu"
  /\ out' = IF MonthlyRaises(transactions) THEN NoOutput
            ELSE [kind |-> "monthly",
                  val |-> calculate_monthly_expenses(transactions)]
  /\ choice' = "8"
  /\ inp' = <<>>
  /\ UNCHANGED <<exists, file, initial, transactions>>

ChoosePayroll ==
  /\ pc = "menu"
  /\ \E salary \in SalaryInputs :
       /\ IsFloat(salary) => Len(transactions) < MaxLen
       /\ transactions' = add_payroll(transactions, "Ana", salary)
       /\ inp' = <<"Ana", salary>>
  /\ choice' = "9"
  /\ out' = NoOutput
  /\ UNCHANGED <<exists, file, initial, pc>>

ChooseSave ==
  /\ pc = "menu"
  /\ LET r == save_transactions(exists, file, transactions) IN
       /\ file' = r.lines
       /\ pc' = IF r.raised THEN "crashed" ELSE "menu"
  /\ exists' = TRUE
  /\ choice' = "10"
  /\ inp' = <<>>
  /\ out' = NoOutput
  /\ UNCHANGED <<initial, transactions>>

ChooseExit ==
  /\ pc = "menu"
  /\ \E save_now \in SaveNowInputs :
       /\ inp' = <<save_now>>
       /\ IF lower(save_now) = "y"
          THEN LET r == save_transactions(exists, file, transactions) IN
                 /\ file' = r.lines
                 /\ pc' = IF r.raised THEN "crashed" ELSE "exited"
          ELSE /\ file' = file
               /\ pc' = "exited"
  /\ exists' = TRUE
  /\ choice' = "11"
  /\ out' = NoOutput
  /\ UNCHANGED <<initial, transactions>>

ChooseInvalid ==
  /\ pc = "menu"
  /\ \E c \in InvalidChoices : choice' = c
  /\ inp' = <<>>
  /\ out' = NoOutput
  /\ UNCHANGED <<exists, file, initial, transactions, pc>>

Next ==
  \/ MainLoad
  \/ ChooseAddIncome
  \/ ChooseAddExpense
  \/ ChooseViewAll
  \/ ChooseViewIncome
  \/ ChooseViewExpense
  \/ ChooseUpdate
  \/ ChooseBalance
  \/ ChooseMonthly
  \/ ChoosePayroll
  \/ ChooseSave
  \/ ChooseExit
  \/ ChooseInvalid

Spec == Init /\ [][Next]_vars

\* The editing operations alone: the file is read once and never written.
EditFiles == {Absent, OnDisk(<<HeaderLine, GoodLine>>)}

InitEdit == StartOn(EditFiles)

NextEdit ==
  \/ MainLoad
  \/ ChooseAddIncome
  \/ ChooseAddExpense
  \/ ChoosePayroll
  \/ ChooseUpdate
  \/ ChooseInvalid

SpecEdit == InitEdit /\ [][NextEdit]_vars

\* The store alone: the load of main() on every kind of file.
NextStore == MainLoad

SpecStore == InitStore /\ [][NextStore]_vars

\* The views alone, on lists loaded from files.
NextViews ==
  \/ MainLoad
  \/ ChooseViewAll
  \/ ChooseViewIncome
  \/ ChooseViewExpense
  \/ ChooseBalance
  \/ ChooseMonthly

SpecViews == InitViews /\ [][NextViews]_vars


(***************************************************************************)
(* Properties.  Positions are counted from 1, letter case is compared       *)
(* letter by letter, and sums are taken over sets of positions.             *)
(***************************************************************************)
SameLetter(c, d) ==
  \/ c = d
  \/ \E i \in 1..26 : {c, d} = {Char(UpperChars, i), Char(LowerChars, i)}

EqualsIgnoringCase(a, b) ==
  /\ Len(a) = Len(b)
  /\ \A i \in 1..Len(a) : SameLetter(Char(a, i), Char(b, i))

RECURSIVE SumOver(_, _)
SumOver(S, f) ==
  IF S = {} THEN 0
  ELSE LET i == CHOOSE j \in S : TRUE IN f[i] + SumOver(S \ {i}, f)

Amounts(list) == [i \in 1..Len(list) |-> list[i]["Amount"]]

Saving == choice = "10" \/ (choice = "11" /\ inp \in {<<"y">>, <<"Y">>})

(***************************************************************************)
(* C1  Round trip.  Right after a save, loading the file gives back the     *)
(* list that was saved: same records, same field values, same order.        *)
(***************************************************************************)
C1_RoundTrip ==
  (pc = "menu" /\ choice = "10")
    => load_transactions(exists, file).list = transactions

(***************************************************************************)
(* C2  No error is fatal.  After the load the process never dies of an      *)
(* uncaught exception, and it ends only by the exit choice.                 *)
(***************************************************************************)
C2_NoFatalError ==
  /\ pc = "crashed" => choice = ""
  /\ pc = "exited" => choice = "11"

RepairRuns(f) ==
  f.exists /\ (f.lines = <<>> \/ strip(f.lines[1]) # HeaderLine)

Mappable(d) == DOMAIN d \subseteq FieldSet

RECURSIVE Recovered(_, _)
Recovered(rows, i) ==
  IF i > Len(rows) THEN <<>>
  ELSE IF Mappable(rows[i])
       THEN <<WriteRow(rows[i], FALSE)>> \o Recovered(rows, i + 1)
       ELSE Recovered(rows, i + 1)

(***************************************************************************)
(* C3  The repair never raises.  Started on an existing file whose first    *)
(* line is not the header, ensure_csv_file returns normally and leaves the  *)
(* header followed by every row of the old contents that maps onto the      *)
(* five fields.                                                             *)
(***************************************************************************)
C3_RepairNeverRaises ==
  (pc # "start" /\ RepairRuns(initial))
    => /\ pc # "crashed"
       /\ file = <<HeaderLine>> \o Recovered(DictReader(initial.lines), 1)

AmountParses(line) ==
  LET cells == ReaderRow(line) IN Len(cells) >= 5 /\ IsFloat(cells[5])

RECURSIVE RowsThatParse(_, _)
RowsThatParse(lines, i) ==
  IF i > Len(lines) THEN <<>>
  ELSE IF AmountParses(lines[i])
       THEN <<LoadedRow(DictRow(FIELDNAMES, ReaderRow(lines[i])))>>
              \o RowsThatParse(lines, i + 1)
       ELSE RowsThatParse(lines, i + 1)

(***************************************************************************)
(* C4  Load skips each bad row on its own.  On a file with the valid        *)
(* header the list loaded is, in file order, the rows whose Amount parses;  *)
(* a row whose Amount is not a number, is empty or is missing does not      *)
(* change what becomes of the rows after it.                                *)
(***************************************************************************)
C4_LoadSkipsBadRows ==
  (pc = "menu" /\ initial.exists /\ initial.lines # <<>>
     /\ initial.lines[1] = HeaderLine)
    => transactions = RowsThatParse(initial.lines, 2)

SavedLines(list) ==
  <<HeaderLine>> \o [i \in 1..Len(list) |-> WriteRow(list[i], TRUE)]

(***************************************************************************)
(* C5  The file is the last save.  From the menu, a save (choice 10, or     *)
(* exit answered y) leaves the header followed by one line per record of    *)
(* the list, in order; every other action leaves the file as it was.        *)
(***************************************************************************)
C5_FileIsLastSave ==
  [][pc = "menu"
       => IF Saving' THEN file' = SavedLines(transactions) ELSE file' = file]_vars

NotNumbers == {"abc", "x", ""}

MenuChoices == {DecStr(i) : i \in 1..11}

BadPosition(number, length) ==
  ~IsInt(number) \/ IntVal(number) < 1 \/ IntVal(number) > length

FailedStep ==
  \/ choice' = "1" /\ inp'[3] \in NotNumbers
  \/ choice' = "2" /\ inp'[4] \in NotNumbers
  \/ choice' = "9" /\ inp'[2] \in NotNumbers
  \/ choice' = "6" /\ inp' # <<>> /\ BadPosition(inp'[1], Len(transactions))
  \/ choice' \notin MenuChoices

(***************************************************************************)
(* C6  A failed operation changes nothing.  An add whose amount is not a    *)
(* number, an update whose position is not an integer or is outside         *)
(* 1..length (0 and negative numbers included), and an invalid menu choice  *)
(* all leave the list as it was.                                            *)
(***************************************************************************)
C6_FailedOperationNoChange ==
  [][(pc = "menu" /\ FailedStep) => transactions' = transactions]_vars

C6_Witness ==
  /\ pc = "menu"
  /\ choice = "6"
  /\ inp \in {<<"0">>, <<"-1">>}
  /\ Len(transactions) = 2

Replaced(old, new) == IF new = "" THEN old ELSE new

UpdateAsClaimed(before, after, answers) ==
  LET at == IntVal(answers[1])
      t == before[at]
      u == after[at]
  IN  /\ Len(answers) = 5
      /\ Len(after) = Len(before)
      /\ \A j \in 1..Len(before) : j # at => after[j] = before[j]
      /\ DOMAIN u = DOMAIN t
      /\ \A k \in DOMAIN t \ {"Description", "Type", "Category", "Amount"} :
           u[k] = t[k]
      /\ u["Description"] = Replaced(t["Description"], answers[2])
      /\ u["Type"] = Replaced(t["Type"], answers[3])
      /\ u["Category"] = Replaced(t["Category"], answers[4])
      /\ u["Amount"] = IF answers[5] \in {"", "abc"} THEN t["Amount"]
                       ELSE FloatVal(answers[5])

(***************************************************************************)
(* C7  Update changes one record, field by field.  At a position within     *)
(* 1..length only that record changes: Description, Type and Category keep  *)
(* their value on an empty replacement and take the replacement otherwise;  *)
(* Amount takes a replacement that is a number and keeps its value on an    *)
(* empty or non-numeric one; Date and every other record stay.              *)
(***************************************************************************)
C7_UpdateFrame ==
  [][(/\ pc = "menu"
      /\ pc' = "menu"
      /\ choice' = "6"
      /\ inp' # <<>>
      /\ ~BadPosition(inp'[1], Len(transactions)))
       => UpdateAsClaimed(transactions, transactions', inp')]_vars

C7_Witness ==
  /\ pc = "menu"
  /\ choice = "6"
  /\ inp = <<"2", "", "income", "", "abc">>
  /\ transactions[2]["Type"] = "income"
  /\ transactions[2]["Category"] = "Expense"
  /\ transactions[2]["Amount"] = 30

IncomeAt(list) ==
  {i \in 1..Len(list) : EqualsIgnoringCase(list[i]["Type"], "income")}

BalanceAsClaimed(list) ==
  SumOver(IncomeAt(list), Amounts(list))
    - SumOver((1..Len(list)) \ IncomeAt(list), Amounts(list))

(***************************************************************************)
(* C8  Balance.  The balance printed is the sum of the amounts of the       *)
(* records whose Type is income in any letter case, minus the amounts of    *)
(* all the other records; computing it leaves the list as it was.           *)
(***************************************************************************)
C8_Balance ==
  [][(pc = "menu" /\ choice' = "7")
       => /\ transactions' = transactions
          /\ out' = [kind |-> "balance", val |-> BalanceAsClaimed(transactions)]
    ]_vars

C8_Witness ==
  /\ choice = "7"
  /\ Len(transactions) = 3
  /\ transactions[1]["Type"] = "Income"
  /\ transactions[2]["Type"] = "EXPENSE"
  /\ transactions[3]["Type"] = "Transfer"
  /\ out = [kind |-> "balance", val |-> 100 - 30 - 10]

ExpenseAt(list) ==
  {i \in 1..Len(list) : EqualsIgnoringCase(list[i]["Type"], "expense")}

KeyAsClaimed(t) ==
  (IF Len(t["Date"]) > 7 THEN SubSeq(t["Date"], 1, 7) ELSE t["Date"])
    \o " - " \o t["Category"]

WithKey(list, key) == {i \in ExpenseAt(list) : KeyAsClaimed(list[i]) = key}

FirstWithKey(list, key) ==
  CHOOSE i \in WithKey(list, key) : \A j \in WithKey(list, key) : i <= j

MonthlyAsClaimed(list, lines) ==
  /\ {lines[j][1] : j \in 1..Len(lines)}
       = {KeyAsClaimed(list[i]) : i \in ExpenseAt(list)}
  /\ \A j \in 1..Len(lines) :
       lines[j][2] = SumOver(WithKey(list, lines[j][1]), Amounts(list))
  /\ \A j, k \in 1..Len(lines) :
       j < k => FirstWithKey(list, lines[j][1]) < FirstWithKey(list, lines[k][1])

(***************************************************************************)
(* C9  Monthly expenses.  The summary has one line per key, the key of a    *)
(* record being the first 7 characters of its Date (all of it if shorter),  *)
(* " - " and its Category; only records whose Type is expense in any letter *)
(* case count; each line carries the sum of the amounts of its records;     *)
(* the lines are in the order in which the keys first occur in the list.    *)
(***************************************************************************)
C9_MonthlyExpenses ==
  out.kind = "monthly" => MonthlyAsClaimed(transactions, out.val)

C9_Witness ==
  /\ out.kind = "monthly"
  /\ Len(transactions) = 3
  /\ out.val = <<<<"2024-01 - Rent", 700>>, <<"2024-01 - Food", 30>>>>

(***************************************************************************)
(* C10  Every record is fully populated.  After the load and after every    *)
(* operation each record of the list has all five fields.                   *)
(***************************************************************************)
C10_FullyPopulated ==
  pc # "start"
    => \A i \in 1..Len(transactions) : FieldSet \subseteq DOMAIN transactions[i]

====
